---- MODULE Spec2Model ----
(***************************************************************************)
(* JanusGraphRecipeStore over JanusGraphClient: the remote property graph, *)
(* the store operations as sequences of remote calls issued by concurrent  *)
(* requests, and the recommendation post-processing loop.                  *)
(*                                                                         *)
(* Strings are sequences of UTF-16 code units (32 ' ', 44 ',', 65.. 'A'..,  *)
(* 97.. 'a'..), vertex and edge ids are positions in V and E.              *)
(***************************************************************************)
EXTENDS Integers, Sequences, FiniteSets, TLC

VARIABLES V, E, st, ops, budget, faults, started, completed,
          rPaths, rCount, rI, recipes, recipeHash,
          remote, graphId, boot, input, output, stores, sent

storeVars == <<V, E, st, ops, budget, faults, started, completed>>
loopVars  == <<rPaths, rCount, rI, recipes, recipeHash>>
\* the graphs of the remote service, the graph id the client holds, the
\* init() call, the argument and result of a string conversion, the stores
\* that share the client, and the bindings and scripts of the shared client
clientVars == <<remote, graphId, boot, input, output, stores, sent>>
vars      == <<V, E, st, ops, budget, faults, started, completed,
               rPaths, rCount, rI, recipes, recipeHash,
               remote, graphId, boot, input, output, stores, sent>>

(* ------------------------------ bounds -------------------------------- *)
\* store operations started in one behaviour
MaxOps == 2
\* recordings of one weighted edge started in one behaviour
MaxRecords == 3
\* remote calls that fail, or answer 200 without rows, in one behaviour
MaxFaults == 1
\* largest `count` argument of the recommendation queries
MaxLimit == 2
\* longest path list fed to the recommendation loop
MaxPaths == 4
\* largest count of a seeded selects edge
MaxCount == 3
\* longest ingredient list handed to the store as a string
MaxKeyLen == 3
\* longest string value embedded in a script
MaxValueLen == 3
\* bindings and scripts of a shared client in one behaviour
MaxSent == 5

\* concurrent requests (the bot serves several users at once)
Procs == {"p1", "p2"}
\* one request at a time
SeqProcs == {"p1"}

\* "U1", "U2"
Users == {<<85, 49>>, <<85, 50>>}
\* "B,A" and "a, b": order/case/space variants of one ingredient list
IngredientInputs == {<<66, 44, 65>>, <<97, 44, 32, 98>>}
\* " IT"
CuisineInputs == {<<32, 73, 84>>}
\* " R7"
RecipeIds == {<<32, 82, 55>>}
\* recipe names in the paths of the recommendation loop: "r7", "r8" and
\* "constructor"
LoopKeys == {<<114, 55>>, <<114, 56>>,
             <<99, 111, 110, 115, 116, 114, 117, 99, 116, 111, 114>>}

(* ------------------------------ strings ------------------------------- *)
isSpace(c) == c = 32 \/ c = 9 \/ c = 10

RECURSIVE trimStart(_)
trimStart(s) ==
    IF s # <<>> /\ isSpace(Head(s)) THEN trimStart(Tail(s)) ELSE s

RECURSIVE trimEnd(_)
trimEnd(s) ==
    IF s # <<>> /\ isSpace(s[Len(s)]) THEN trimEnd(SubSeq(s, 1, Len(s) - 1)) ELSE s

trim(s) == trimEnd(trimStart(s))

toLowerCase(s) ==
    [i \in 1..Len(s) |-> IF s[i] \in 65..90 THEN s[i] + 32 ELSE s[i]]

\* s.split(','): the pieces between the commas, empty pieces included
RECURSIVE split(_)
split(s) ==
    IF \E i \in 1..Len(s) : s[i] = 44
    THEN LET i == CHOOSE k \in 1..Len(s) :
                      s[k] = 44 /\ \A j \in 1..(k - 1) : s[j] # 44
         IN  <<SubSeq(s, 1, i - 1)>> \o split(SubSeq(s, i + 1, Len(s)))
    ELSE <<s>>

\* the default comparison of Array.prototype.sort on strings: code units,
\* a proper prefix first
RECURSIVE strLess(_, _)
strLess(a, b) ==
    IF b = <<>> THEN FALSE
    ELSE IF a = <<>> THEN TRUE
    ELSE IF Head(a) # Head(b) THEN Head(a) < Head(b)
    ELSE strLess(Tail(a), Tail(b))

RECURSIVE insertSorted(_, _)
insertSorted(x, xs) ==
    IF xs = <<>> THEN <<x>>
    ELSE IF strLess(Head(xs), x) THEN <<Head(xs)>> \o insertSorted(x, Tail(xs))
    ELSE <<x>> \o xs

\* the elements left in the order given
unsorted(xs) == xs

RECURSIVE sort(_)
sort(xs) == IF xs = <<>> THEN <<>> ELSE insertSorted(Head(xs), sort(Tail(xs)))

RECURSIVE join(_)
join(xs) ==
    IF xs = <<>> THEN <<>>
    ELSE IF Len(xs) = 1 THEN xs[1]
    ELSE xs[1] \o <<44>> \o join(Tail(xs))

getUniqueIngredientsName(ingredientsStr) ==
    LET ingredients == split(toLowerCase(trim(ingredientsStr)))
        trimmed == [i \in 1..Len(ingredients) |-> trim(ingredients[i])]
    IN  join(sort(trimmed))

getUniqueCuisineName(cuisine) == toLowerCase(trim(cuisine))

getUniqueRecipeName(recipeId) == toLowerCase(trim(recipeId))

(* ------------------------------- graph -------------------------------- *)
NoVertex == [label |-> "none", name |-> <<>>]
NoEdge == [label |-> "none", outV |-> 0, inV |-> 0, properties |-> <<>>]

\* a lookup that never matches
findNoVertex(label, name) == {}

\* g.V().hasLabel(label).has("name", name)
findVertexIds(label, name) ==
    {i \in 1..Len(V) : V[i].label = label /\ V[i].name = name}

\* g.V(outV).outE().inV().hasId(inV).path(): the edges of any label
edgesBetween(outV, inV) ==
    {e \in 1..Len(E) : E[e].outV = outV /\ E[e].inV = inV}

hasCount(e) == "count" \in DOMAIN E[e].properties

personIds == {i \in 1..Len(V) : V[i].label = "person"}
originIds == {i \in 1..Len(V) : V[i].label \in {"ingredient", "cuisine"}}

\* dynamic counters keyed by the ordered pair <<outV, inV>>
Get(f, k) == IF k \in DOMAIN f THEN f[k] ELSE 0
Inc(f, k) == [x \in DOMAIN f \cup {k} |-> Get(f, x) + (IF x = k THEN 1 ELSE 0)]


(* --------------------------- request state ---------------------------- *)
\* pc names the remote call a request is waiting for
Idle == [pc |-> "idle", op |-> "none", vertex |-> NoVertex, user |-> 0,
         origin |-> 0, v |-> 0, stage |-> 0, edge |-> NoEdge,
         eid |-> 0, properties |-> <<>>, status |-> "none", ret |-> 0,
         result |-> <<>>, count |-> 0]

InFlight == {"upsertQuery", "createVertex", "updateQuery", "updateEdge",
             "createEdge", "ensureQuery"}

\* a settled request keeps its operation and its outcome
resolve(me, val) ==
    [Idle EXCEPT !.op = me.op, !.status = "resolved", !.ret = val]

\* a rejection that leaves the failed call in flight, to be answered again
rejectAndRetry(me) ==
    [me EXCEPT !.status = "rejected"]

reject(me) ==
    [Idle EXCEPT !.op = me.op, !.status = "rejected"]

selectsEdge(outV, inV) ==
    [label |-> "selects", outV |-> outV, inV |-> inV,
     properties |-> [k \in {"count"} |-> 1]]

\* the has edge laid from the origin to the recipe
hasEdgeReversed(outV, inV) ==
    [label |-> "has", outV |-> inV, inV |-> outV, properties |-> <<>>]

hasEdge(outV, inV) ==
    [label |-> "has", outV |-> outV, inV |-> inV, properties |-> <<>>]

\* a chain that records the edge whatever the upsert returned
thenVertexUnchecked(me, id) ==
    IF me.op = "addUser" THEN resolve(me, id)
    ELSE [me EXCEPT !.pc = "updateQuery", !.v = id, !.stage = 1,
                    !.edge = selectsEdge(me.user, id)]

\* the .then() of the vertex upsert: `id` is the returned vertex, 0 for null
thenVertex(me, id) ==
    IF me.op = "addUser" THEN resolve(me, id)
    ELSE IF id = 0 THEN reject(me)
    ELSE [me EXCEPT !.pc = "updateQuery", !.v = id, !.stage = 1,
                    !.edge = selectsEdge(me.user, id)]

\* a chain that records the origin's edge whether there is an origin or not
thenEdgeAnyOrigin(me) ==
    IF me.stage = 1 /\ me.op = "addRecipe"
    THEN [me EXCEPT !.pc = "updateQuery", !.stage = 2, !.eid = 0,
                    !.properties = <<>>,
                    !.edge = selectsEdge(me.origin, me.v)]
    ELSE IF me.stage = 2
    THEN [me EXCEPT !.pc = "ensureQuery", !.stage = 3, !.eid = 0,
                    !.properties = <<>>,
                    !.edge = hasEdge(me.v, me.origin)]
    ELSE resolve(me, me.v)

\* a chain that ensures the has edge right after the user's selects edge
thenEdgeHasFirst(me) ==
    IF me.stage = 1 /\ me.op = "addRecipe" /\ me.origin # 0
    THEN [me EXCEPT !.pc = "ensureQuery", !.stage = 3, !.eid = 0,
                    !.properties = <<>>,
                    !.edge = hasEdge(me.v, me.origin)]
    ELSE resolve(me, me.v)

\* the .then() chain of recordRecipeRequestForUser and its siblings
thenEdge(me) ==
    IF me.stage = 1 /\ me.op = "addRecipe" /\ me.origin # 0
    THEN [me EXCEPT !.pc = "updateQuery", !.stage = 2, !.eid = 0,
                    !.properties = <<>>,
                    !.edge = selectsEdge(me.origin, me.v)]
    ELSE IF me.stage = 2
    THEN [me EXCEPT !.pc = "ensureQuery", !.stage = 3, !.eid = 0,
                    !.properties = <<>>,
                    !.edge = hasEdge(me.v, me.origin)]
    ELSE resolve(me, me.v)

pairOf(me) == <<me.edge.outV, me.edge.inV>>

\* addUpdateEdge calls begun / run to completion, per ordered pair
startedAfter(next) ==
    IF next.pc = "updateQuery" THEN Inc(started, pairOf(next)) ELSE started

completedAfter(me) ==
    IF me.stage \in {1, 2} THEN Inc(completed, pairOf(me)) ELSE completed

(* -------------------------- store operations -------------------------- *)
begin(p, me) ==
    /\ st[p].pc = "idle"
    /\ ops < budget
    /\ ops' = ops + 1
    /\ st' = [st EXCEPT ![p] = me]
    /\ UNCHANGED <<V, E, faults, started, completed, budget, loopVars, clientVars>>

addUser(p, userId) ==
    begin(p, [Idle EXCEPT !.pc = "upsertQuery", !.op = "addUser",
                          !.vertex = [label |-> "person", name |-> userId]])

addIngredient(p, ingredientsStr, userVertex) ==
    begin(p, [Idle EXCEPT !.pc = "upsertQuery", !.op = "addIngredient",
                          !.vertex = [label |-> "ingredient",
                                      name |-> getUniqueIngredientsName(ingredientsStr)],
                          !.user = userVertex])

addCuisine(p, cuisine, userVertex) ==
    begin(p, [Idle EXCEPT !.pc = "upsertQuery", !.op = "addCuisine",
                          !.vertex = [label |-> "cuisine",
                                      name |-> getUniqueCuisineName(cuisine)],
                          !.user = userVertex])

addRecipe(p, recipeId, ingredientCuisineVertex, userVertex) ==
    begin(p, [Idle EXCEPT !.pc = "upsertQuery", !.op = "addRecipe",
                          !.vertex = [label |-> "recipe",
                                      name |-> getUniqueRecipeName(recipeId)],
                          !.origin = ingredientCuisineVertex,
                          !.user = userVertex])

\* an upsert that stores the properties passed on the vertex it finds
addVertexOrUpdate(p) ==
    LET me == st[p]
        found == findVertexIds(me.vertex.label, me.vertex.name)
    IN  /\ me.pc = "upsertQuery"
        /\ IF found # {}
           THEN \E id \in found :
                    /\ st' = [st EXCEPT ![p] = thenVertex(me, id)]
                    /\ started' = startedAfter(thenVertex(me, id))
                    /\ V' = [V EXCEPT ![id] = me.vertex]
           ELSE /\ st' = [st EXCEPT ![p] = [me EXCEPT !.pc = "createVertex"]]
                /\ started' = started
                /\ V' = V
        /\ UNCHANGED <<E, ops, faults, completed, budget, loopVars, clientVars>>

\* response of the lookup of addVertexIfNotExists; data[0] is any match
addVertexIfNotExists(p) ==
    LET me == st[p]
        found == findVertexIds(me.vertex.label, me.vertex.name)
    IN  /\ me.pc = "upsertQuery"
        /\ IF found # {}
           THEN \E id \in found :
                    /\ st' = [st EXCEPT ![p] = thenVertex(me, id)]
                    /\ started' = startedAfter(thenVertex(me, id))
           ELSE /\ st' = [st EXCEPT ![p] = [me EXCEPT !.pc = "createVertex"]]
                /\ started' = started
        /\ UNCHANGED <<V, E, ops, faults, completed, budget, loopVars, clientVars>>

\* graph.addVertex(...) runs; the response echoes the vertex or carries no rows
createVertex(p) ==
    LET me == st[p]
    IN  /\ me.pc = "createVertex"
        /\ V' = Append(V, me.vertex)
        /\ \E echo \in BOOLEAN :
               LET next == thenVertex(me, IF echo THEN Len(V) + 1 ELSE 0)
               IN  /\ echo \/ faults < MaxFaults
                   /\ faults' = IF echo THEN faults ELSE faults + 1
                   /\ st' = [st EXCEPT ![p] = next]
                   /\ started' = startedAfter(next)
        /\ UNCHANGED <<E, ops, completed, budget, loopVars, clientVars>>

\* a lookup that finds no count property on the edge it reads
readCountUnset(e) == 0

\* a read that returns one more than the edge holds
readCountOneMore(e) == IF hasCount(e) THEN E[e].properties.count + 1 ELSE 1

\* the count addUpdateEdge reads from the edge found: 0 when there is none
readCount(e) == IF hasCount(e) THEN E[e].properties.count ELSE 0

\* response of the lookup of addUpdateEdge; data[0] is any edge of the pair
addUpdateEdge(p) ==
    LET me == st[p]
        found == edgesBetween(me.edge.outV, me.edge.inV)
    IN  /\ me.pc = "updateQuery"
        /\ IF found # {}
           THEN \E e \in found :
                    LET props == [k \in DOMAIN E[e].properties \cup {"count"} |->
                                     IF k = "count" THEN readCount(e) + 1
                                     ELSE E[e].properties[k]]
                    IN  st' = [st EXCEPT ![p] = [me EXCEPT !.pc = "updateEdge",
                                                           !.eid = e,
                                                           !.properties = props]]
           ELSE st' = [st EXCEPT ![p] = [me EXCEPT !.pc = "createEdge"]]
        /\ UNCHANGED <<V, E, ops, faults, started, completed, budget, loopVars, clientVars>>

\* an update that increments the stored count on the server instead of
\* storing the count computed from the earlier read
updatedAtomically(old, properties) ==
    [k \in DOMAIN old \cup DOMAIN properties |->
        IF k = "count" /\ k \in DOMAIN old THEN old[k] + 1
        ELSE IF k \in DOMAIN properties THEN properties[k] ELSE old[k]]

\* .property(k, v) for every property passed: the others keep their value
updated(old, properties) ==
    [k \in DOMAIN old \cup DOMAIN properties |->
        IF k \in DOMAIN properties THEN properties[k] ELSE old[k]]

\* g.E(id).property(k, v)... runs
updateEdge(p) ==
    LET me == st[p]
    IN  /\ me.pc = "updateEdge"
        /\ E' = [E EXCEPT ![me.eid].properties = updated(@, me.properties)]
        /\ st' = [st EXCEPT ![p] = thenEdge(me)]
        /\ started' = startedAfter(thenEdge(me))
        /\ completed' = completedAfter(me)
        /\ UNCHANGED <<V, ops, faults, budget, loopVars, clientVars>>

\* the new edge written over the last edge of the graph
createEdgeOverwriting(p) ==
    LET me == st[p]
    IN  /\ me.pc = "createEdge"
        /\ E' = IF E = <<>> THEN <<me.edge>> ELSE [E EXCEPT ![Len(E)] = me.edge]
        /\ st' = [st EXCEPT ![p] = thenEdge(me)]
        /\ started' = startedAfter(thenEdge(me))
        /\ completed' = completedAfter(me)
        /\ UNCHANGED <<V, ops, faults, budget, loopVars, clientVars>>

\* outV.addEdge(label, inV, ...) runs
createEdge(p) ==
    LET me == st[p]
    IN  /\ me.pc = "createEdge"
        /\ E' = Append(E, me.edge)
        /\ st' = [st EXCEPT ![p] = thenEdge(me)]
        /\ started' = startedAfter(thenEdge(me))
        /\ completed' = completedAfter(me)
        /\ UNCHANGED <<V, ops, faults, budget, loopVars, clientVars>>

\* the edge created without regard to the lookup
addEdgeAlways(p) ==
    /\ st[p].pc = "ensureQuery"
    /\ st' = [st EXCEPT ![p] = [st[p] EXCEPT !.pc = "createEdge"]]
    /\ UNCHANGED <<V, E, ops, faults, started, completed, budget, loopVars, clientVars>>

\* a lookup that, like addUpdateEdge, counts on the edge it finds
addEdgeIfNotExistsCounting(p) ==
    LET me == st[p]
        found == edgesBetween(me.edge.outV, me.edge.inV)
    IN  /\ me.pc = "ensureQuery"
        /\ IF found # {}
           THEN \E e \in found :
                    st' = [st EXCEPT ![p] =
                              [me EXCEPT !.pc = "updateEdge", !.eid = e,
                                         !.properties = [k \in {"count"} |->
                                                            readCount(e) + 1]]]
           ELSE st' = [st EXCEPT ![p] = [me EXCEPT !.pc = "createEdge"]]
        /\ UNCHANGED <<V, E, ops, faults, started, completed, budget, loopVars, clientVars>>

\* response of the lookup of addEdgeIfNotExists
addEdgeIfNotExists(p) ==
    LET me == st[p]
        found == edgesBetween(me.edge.outV, me.edge.inV)
    IN  /\ me.pc = "ensureQuery"
        /\ IF found # {}
           THEN st' = [st EXCEPT ![p] = thenEdge(me)]
           ELSE st' = [st EXCEPT ![p] = [me EXCEPT !.pc = "createEdge"]]
        /\ UNCHANGED <<V, E, ops, faults, started, completed, budget, loopVars, clientVars>>

\* the response has a status other than 200, or the transport fails
runGremlinQueryRejects(p) ==
    /\ st[p].pc \in InFlight
    /\ faults < MaxFaults
    /\ faults' = faults + 1
    /\ st' = [st EXCEPT ![p] = reject(st[p])]
    /\ UNCHANGED <<V, E, ops, started, completed, budget, loopVars, clientVars>>

(* --------------------------- recommendation --------------------------- *)
\* recipeHash is an object literal: besides its own entries it answers the
\* names it inherits from Object.prototype with an object. Of those names
\* toLowerCase leaves "constructor" and "__proto__" as they are.
ObjectPrototype ==
    {<<99, 111, 110, 115, 116, 114, 117, 99, 116, 111, 114>>,
     <<95, 95, 112, 114, 111, 116, 111, 95, 95>>}

\* the cap applied before the lookup: nothing is counted once `count`
\* recipes are emitted
loopBodyCapFirst(acc, recipeId, count) ==
    IF Len(acc.recipes) >= count
    THEN acc
    ELSE IF recipeId \in DOMAIN acc.recipeHash
    THEN [acc EXCEPT !.recipes[acc.recipeHash[recipeId]].recommendedUserCount = @ + 1]
    ELSE IF recipeId \in ObjectPrototype
    THEN acc
    ELSE [recipes |-> Append(acc.recipes,
                             [id |-> recipeId, recommendedUserCount |-> 1]),
          recipeHash |-> acc.recipeHash @@ (recipeId :> (Len(acc.recipes) + 1))]

\* one pass of the loop over the returned paths: recipeId is the name of
\* path.objects[1]; recipeHash[id] is the position in `recipes` of the entry
\* it shares with the array. An inherited member is truthy, so its name takes
\* the else branch, where `+= 1` lands on the inherited object.
loopBody(acc, recipeId, count) ==
    IF recipeId \in DOMAIN acc.recipeHash
    THEN [acc EXCEPT !.recipes[acc.recipeHash[recipeId]].recommendedUserCount = @ + 1]
    ELSE IF recipeId \in ObjectPrototype
    THEN acc
    ELSE IF Len(acc.recipes) >= count
    THEN acc
    ELSE [recipes |-> Append(acc.recipes,
                             [id |-> recipeId, recommendedUserCount |-> 1]),
          recipeHash |-> acc.recipeHash @@ (recipeId :> (Len(acc.recipes) + 1))]

RECURSIVE loopFrom(_, _, _)
loopFrom(acc, paths, count) ==
    IF paths = <<>> THEN acc
    ELSE loopFrom(loopBody(acc, Head(paths), count), Tail(paths), count)

\* what getRecommendedRecipes resolves with for the path list `paths`
recommendedRecipes(paths, count) ==
    loopFrom([recipes |-> <<>>, recipeHash |-> <<>>], paths, count).recipes

\* the floor gt(0) instead of gt(1)
minCountZero == 1 - 1

\* has("count", gt(1))
minCount == 1

\* the traversers of
\*   g.V().hasLabel(label).has("name", key).in("has")
\*    .inE().has("count", gt(1)) ... .outV().hasLabel("person").has("name", neq(userName))
\* one per (start vertex, has edge, counted edge)
traversers(label, key, userName) ==
    UNION {UNION {{[start |-> s, recipe |-> E[h].outV, via |-> h, edge |-> e,
                    person |-> E[e].outV] :
                      e \in {x \in 1..Len(E) :
                                /\ E[x].inV = E[h].outV
                                /\ hasCount(x)
                                /\ E[x].properties.count > minCount
                                /\ V[E[x].outV].label = "person"
                                /\ V[E[x].outV].name # userName}} :
                  h \in {x \in 1..Len(E) : E[x].label = "has" /\ E[x].inV = s}} :
           s \in {x \in 1..Len(V) : V[x].label = label /\ V[x].name = key}}

\* .order().by("count", decr): any order of the traversers with the counts
\* non-increasing (the order among equal counts is the server's)
orderings(T) ==
    {q \in [1..Cardinality(T) -> T] :
        /\ \A i, j \in 1..Cardinality(T) : i # j => q[i] # q[j]
        /\ \A i, j \in 1..Cardinality(T) :
              i < j => E[q[i].edge].properties.count >= E[q[j].edge].properties.count}

\* .path(): the recipe names at objects[1], in the order returned
pathLists(label, key, userName) ==
    {[i \in 1..Len(q) |-> V[q[i].recipe].name] :
        q \in orderings(traversers(label, key, userName))}

\* The query is the operation's only remote call: it runs on the server and
\* the response is post-processed; a failed call rejects.
getRecommendedRecipes(p, op, label, key, userVertex, count) ==
    /\ st[p].pc = "idle"
    /\ ops < budget
    /\ ops' = ops + 1
    /\ \/ /\ \E paths \in pathLists(label, key, V[userVertex].name) :
                 st' = [st EXCEPT ![p] =
                           [Idle EXCEPT !.op = op, !.status = "resolved",
                                        !.result = recommendedRecipes(paths, count)]]
          /\ faults' = faults
       \/ /\ faults < MaxFaults
          /\ faults' = faults + 1
          /\ st' = [st EXCEPT ![p] = [Idle EXCEPT !.op = op, !.status = "rejected"]]
    /\ UNCHANGED <<V, E, started, completed, budget, loopVars, clientVars>>

findRecommendedRecipesForIngredient(p, ingredientsStr, userVertex, count) ==
    getRecommendedRecipes(p, "findRecommendedRecipesForIngredient", "ingredient",
                          getUniqueIngredientsName(ingredientsStr), userVertex, count)

findRecommendedRecipesForCuisine(p, cuisine, userVertex, count) ==
    getRecommendedRecipes(p, "findRecommendedRecipesForCuisine", "cuisine",
                          getUniqueCuisineName(cuisine), userVertex, count)

\* the loop of getRecommendedRecipes, one path per step
loopStep ==
    /\ rI < Len(rPaths)
    /\ LET acc == loopBody([recipes |-> recipes, recipeHash |-> recipeHash],
                           rPaths[rI + 1], rCount)
       IN  /\ recipes' = acc.recipes
           /\ recipeHash' = acc.recipeHash
    /\ rI' = rI + 1
    /\ UNCHANGED <<rPaths, rCount, storeVars, clientVars>>

(* ------------------------------ favorites ----------------------------- *)
\* g.V().hasLabel("person").has("name", userName).outE()
outE(userName) ==
    {e \in 1..Len(E) :
        V[E[e].outV].label = "person" /\ V[E[e].outV].name = userName}

\* .order().by("count", decr): any order of the edges with the counts
\* non-increasing
edgeOrderings(T) ==
    {q \in [1..Cardinality(T) -> T] :
        /\ \A i, j \in 1..Cardinality(T) : i # j => q[i] # q[j]
        /\ \A i, j \in 1..Cardinality(T) :
              i < j => E[q[i]].properties.count >= E[q[j]].properties.count}

isRecipeEdge(e) == V[E[e].inV].label = "recipe"

limit(s, n) == SubSeq(s, 1, IF n <= Len(s) THEN n ELSE Len(s))

\* the limit applied to the edges, before the label filter
favoriteListsLimitFirst(userName, count) ==
    {SelectSeq(limit(q, count), isRecipeEdge) : q \in edgeOrderings(outE(userName))}

\* .inV().hasLabel("recipe").limit(count): the edges whose recipes are returned
favoriteLists(userName, count) ==
    {limit(SelectSeq(q, isRecipeEdge), count) : q \in edgeOrderings(outE(userName))}

\* The query is the operation's only remote call; the response rows become
\* {id, title} entries in the order returned. order().by("count") needs the
\* property on every edge it sorts.
findFavoriteRecipesForUser(p, userVertex, count) ==
    /\ st[p].pc = "idle"
    /\ ops < budget
    /\ ops' = ops + 1
    /\ \/ /\ \A e \in outE(V[userVertex].name) : hasCount(e)
          /\ \E q \in favoriteLists(V[userVertex].name, count) :
                 st' = [st EXCEPT ![p] =
                           [Idle EXCEPT !.op = "findFavoriteRecipesForUser",
                                        !.status = "resolved",
                                        !.user = userVertex, !.count = count,
                                        !.result = [i \in 1..Len(q) |->
                                                       [id |-> V[E[q[i]].inV].name]]]]
          /\ faults' = faults
       \/ /\ faults < MaxFaults
          /\ faults' = faults + 1
          /\ st' = [st EXCEPT ![p] =
                       [Idle EXCEPT !.op = "findFavoriteRecipesForUser",
                                    !.status = "rejected"]]
    /\ UNCHANGED <<V, E, started, completed, budget, loopVars, clientVars>>

\* findIngredient: findVertex on the canonical name; data[0] or null
findIngredient(p, ingredientsStr) ==
    LET found == findVertexIds("ingredient", getUniqueIngredientsName(ingredientsStr))
    IN  /\ st[p].pc = "idle"
        /\ ops < budget
        /\ ops' = ops + 1
        /\ \/ /\ \E id \in (IF found = {} THEN {0} ELSE found) :
                     st' = [st EXCEPT ![p] =
                               [Idle EXCEPT !.op = "findIngredient",
                                            !.status = "resolved", !.ret = id]]
              /\ faults' = faults
           \/ /\ faults < MaxFaults
              /\ faults' = faults + 1
              /\ st' = [st EXCEPT ![p] =
                           [Idle EXCEPT !.op = "findIngredient",
                                        !.status = "rejected"]]
        /\ UNCHANGED <<V, E, started, completed, budget, loopVars, clientVars>>

(* ------------------------------- client ------------------------------- *)
\* process.env.GRAPH_ID
GraphIds == {"g"}

\* What rp(...) delivers: a rejection (kind "error"), a response without a
\* body (kind "nobody": responseBody is undefined), or a body whose status
\* and status.code are present or not. code -1 stands for an absent code.
Codes == {-1, 0, 200, 500}

Responses ==
    {[kind |-> "error", hasStatus |-> FALSE, code |-> -1],
     [kind |-> "nobody", hasStatus |-> FALSE, code |-> -1],
     [kind |-> "body", hasStatus |-> FALSE, code |-> -1]}
        \cup {[kind |-> "body", hasStatus |-> TRUE, code |-> c] : c \in Codes}

NoResponse == [kind |-> "none", hasStatus |-> FALSE, code |-> -1]

\* responseBody.status && responseBody.status.code && responseBody.status.code == 200
\* for a body that is present: the first falsy operand, or the comparison
statusOk(responseBody) ==
    IF ~responseBody.hasStatus THEN "undefined"
    ELSE IF responseBody.code = -1 THEN "undefined"
    ELSE IF responseBody.code = 0 THEN "0"
    ELSE IF responseBody.code = 200 THEN "true"
    ELSE "false"

truthy(value) == value = "true"

\* the service answers 200 to open(id) only for a graph it holds
canOpen(id, r) ==
    (r.kind = "body" /\ r.hasStatus /\ r.code = 200) => id \in remote

\* and 200 to create(id) only for a graph it does not hold yet
canCreate(id, r) ==
    (r.kind = "body" /\ r.hasStatus /\ r.code = 200) => id \notin remote

\* init(): pc is its position, calls the scripts sent so far; opened,
\* created, ran the responses to the open script, the create script and the
\* last runGremlinQuery script; probe/exists the outcome of graphExists,
\* ensure/value that of getOrCreateGraph, settled that of init, and
\* query/error that of the last runGremlinQuery
Unstarted ==
    [pc |-> "idle", id |-> "none", calls |-> <<>>,
     opened |-> NoResponse, created |-> NoResponse, ran |-> NoResponse,
     probe |-> "none", exists |-> "none",
     ensure |-> "none", value |-> "none",
     settled |-> "none", query |-> "none", error |-> "none"]

\* the state the store operations run in: init() resolved, the graph bound
InitClientBound ==
    /\ remote = GraphIds
    /\ \E id \in GraphIds :
           /\ graphId = id
           /\ boot = [Unstarted EXCEPT !.pc = "ready", !.id = id,
                                       !.calls = <<"open">>,
                                       !.probe = "resolved", !.exists = "true",
                                       !.ensure = "resolved", !.value = "true",
                                       !.settled = "resolved"]
    /\ stores = <<>>
    /\ sent = <<>>

InitBound ==
    /\ InitClientBound
    /\ input = <<>>
    /\ output = <<>>

\* init(): getOrCreateGraph calls graphExists, which sends the open script
init(id) ==
    /\ boot.pc = "idle"
    /\ boot' = [Unstarted EXCEPT !.pc = "graphExists", !.id = id,
                                 !.calls = <<"open">>]
    /\ UNCHANGED <<remote, graphId, input, output, stores, sent, storeVars, loopVars>>

\* graphExists without its .catch()
graphExistsNoCatch(r) ==
    IF r.kind = "body"
    THEN [settled |-> "resolved", value |-> statusOk(r)]
    ELSE [settled |-> "rejected", value |-> "none"]

\* what graphExists settles with: a rejection of rp and a TypeError thrown
\* on a missing body both end in .catch(() => false)
graphExistsOutcome(r) ==
    IF r.kind = "body"
    THEN [settled |-> "resolved", value |-> statusOk(r)]
    ELSE [settled |-> "resolved", value |-> "false"]

\* a create call whose failures are caught like those of graphExists
createOutcomeCaught(r) ==
    IF r.kind = "body"
    THEN [settled |-> "resolved", value |-> statusOk(r)]
    ELSE [settled |-> "resolved", value |-> "false"]

\* what the .then() of the create call settles with: no .catch() here
createOutcome(r) ==
    IF r.kind = "body"
    THEN [settled |-> "resolved", value |-> statusOk(r)]
    ELSE [settled |-> "rejected", value |-> "none"]

\* init's .then(): setGraphId and resolve, whatever value arrived
initThen(b, o) ==
    [b EXCEPT !.pc = "ready", !.ensure = o.settled, !.value = o.value,
              !.settled = o.settled]

\* the response to the open script arrives
graphExists(r) ==
    LET o == graphExistsOutcome(r)
        b == [boot EXCEPT !.opened = r, !.probe = o.settled, !.exists = o.value]
    IN  /\ boot.pc = "graphExists"
        /\ canOpen(boot.id, r)
        /\ IF o.settled = "rejected"
           THEN /\ boot' = initThen(b, o)
                /\ graphId' = graphId
           ELSE IF truthy(o.value)
           THEN /\ boot' = initThen(b, [settled |-> "resolved", value |-> "true"])
                /\ graphId' = boot.id
           ELSE /\ boot' = [b EXCEPT !.pc = "create",
                                      !.calls = Append(@, "create")]
                /\ graphId' = graphId
        /\ UNCHANGED <<remote, input, output, stores, sent, storeVars, loopVars>>

\* the response to the create script arrives; when no answer with a status
\* came back the service may have created the graph or not
getOrCreateGraph(r) ==
    LET o == createOutcome(r)
    IN  /\ boot.pc = "create"
        /\ canCreate(boot.id, r)
        /\ \E made \in BOOLEAN :
               /\ made => boot.id \notin remote
               /\ (r.kind = "body" /\ r.hasStatus /\ r.code # -1) =>
                      (made <=> r.code = 200)
               /\ remote' = IF made THEN remote \cup {boot.id} ELSE remote
        /\ boot' = initThen([boot EXCEPT !.created = r], o)
        /\ graphId' = IF o.settled = "resolved" THEN boot.id ELSE graphId
        /\ UNCHANGED <<input, output, stores, sent, storeVars, loopVars>>

\* a query that resolves with the response whatever its status
runGremlinQueryLenient(r) ==
    IF r.kind = "error" THEN [settled |-> "rejected", error |-> "transport"]
    ELSE IF r.kind = "nobody" THEN [settled |-> "rejected", error |-> "TypeError"]
    ELSE [settled |-> "resolved", error |-> "none"]

\* what runGremlinQuery settles with
runGremlinQueryOutcome(r) ==
    IF r.kind = "error" THEN [settled |-> "rejected", error |-> "transport"]
    ELSE IF r.kind = "nobody" THEN [settled |-> "rejected", error |-> "TypeError"]
    ELSE IF truthy(statusOk(r)) THEN [settled |-> "resolved", error |-> "none"]
    ELSE [settled |-> "rejected",
          error |-> "Invalid status returned from server."]

\* a script is sent once init has settled and the response arrives; the
\* script opens the graph the client holds
runGremlinQuery(r) ==
    LET o == runGremlinQueryOutcome(r)
    IN  /\ boot.pc = "ready"
        /\ canOpen(graphId, r)
        /\ boot' = [boot EXCEPT !.ran = r, !.query = o.settled, !.error = o.error]
        /\ UNCHANGED <<remote, graphId, input, output, stores, sent, storeVars, loopVars>>

(* ---------------------------- shared client --------------------------- *)
\* new JanusGraphRecipeStore(graphClient, graphId): two stores over one
\* client, each with its own graph id
Stores == {"A", "B"}

storeGraphId == [s \in Stores |-> IF s = "A" THEN "g" ELSE "h"]

\* pc is the position of the store's init(), busy whether an operation of
\* the store waits for the answer to a script
NewStore == [pc |-> "new", busy |-> FALSE]

\* a script that opens the graph of the store that sends it
openedGraphOfStore(s) == storeGraphId[s]

\* def graph=ConfiguredGraphFactory.open("${this.graphId}"): the graph id
\* the client holds when the script is built
openedGraph(s) == graphId

\* init() of store s calls getOrCreateGraph(this.graphId)
initOf(s) ==
    /\ stores[s].pc # "init"
    /\ Len(sent) < MaxSent
    /\ stores' = [stores EXCEPT ![s].pc = "init"]
    /\ UNCHANGED <<remote, graphId, boot, input, output, sent, storeVars, loopVars>>

\* getOrCreateGraph settles: init's .then() runs setGraphId(this.graphId); a
\* rejection skips it
setGraphId(s) ==
    /\ stores[s].pc = "init"
    /\ \E resolved \in BOOLEAN :
           IF resolved
           THEN /\ graphId' = storeGraphId[s]
                /\ sent' = Append(sent, [kind |-> "bind", store |-> s,
                                         id |-> storeGraphId[s], first |-> FALSE])
                /\ stores' = [stores EXCEPT ![s].pc = "ready"]
           ELSE /\ graphId' = graphId
                /\ sent' = sent
                /\ stores' = [stores EXCEPT ![s].pc = "failed"]
    /\ UNCHANGED <<remote, boot, input, output, storeVars, loopVars>>

\* an operation of store s calls runGremlinQuery: its first script once the
\* store's init() has resolved, a later one when the answer to the script
\* before has arrived; `more` tells whether the operation goes on after it
sendScript(s) ==
    /\ stores[s].busy \/ stores[s].pc = "ready"
    /\ Len(sent) < MaxSent
    /\ sent' = Append(sent, [kind |-> "script", store |-> s,
                             id |-> openedGraph(s),
                             first |-> ~stores[s].busy])
    /\ \E more \in BOOLEAN : stores' = [stores EXCEPT ![s].busy = more]
    /\ UNCHANGED <<remote, graphId, boot, input, output, storeVars, loopVars>>

(* ------------------------------ escaping ------------------------------ *)
\* value.replace(new RegExp(pattern, 'g'), replacement) for a pattern that
\* matches the literal string pat: leftmost matches, not overlapping
RECURSIVE replaceAll(_, _, _)
replaceAll(s, pat, rep) ==
    IF Len(s) < Len(pat) THEN s
    ELSE IF SubSeq(s, 1, Len(pat)) = pat
    THEN rep \o replaceAll(SubSeq(s, Len(pat) + 1, Len(s)), pat, rep)
    ELSE <<Head(s)>> \o replaceAll(Tail(s), pat, rep)

\* 92 backslash, 34 double quote, 36 dollar sign:
\*   \" becomes \\", then " becomes \", then $ becomes \$
escapeStringValue(value) ==
    LET escaped == replaceAll(value, <<92, 34>>, <<92, 92, 34>>)
        quoted == replaceAll(escaped, <<34>>, <<92, 34>>)
    IN  replaceAll(quoted, <<36>>, <<92, 36>>)

\* , "${property}", "${this.escapeStringValue(value)}": the literal as it
\* stands in the script, between its double quotes
embedStringValue ==
    /\ output = <<>>
    /\ output' = <<34>> \o escapeStringValue(input) \o <<34>>
    /\ UNCHANGED <<remote, graphId, boot, input, stores, sent, storeVars, loopVars>>

(* -------------------------- vertex properties ------------------------- *)
\* .replace(/'/g, '\\\''): 39 is the single quote, 92 the backslash
escapeQuotes(s) == replaceAll(s, <<39>>, <<92, 39>>)

\* .replace(/\n/g, '\\\\n'): a line feed (10) becomes backslash backslash n
escapeNewlines(s) == replaceAll(s, <<10>>, <<92, 92, 110>>)

\* addIngredient with the detail of the vertex; json is
\* JSON.stringify(matchingRecipes)
addIngredientDetail(p, ingredientsStr, json, userVertex) ==
    begin(p, [Idle EXCEPT !.pc = "upsertQuery", !.op = "addIngredient",
                          !.vertex = [label |-> "ingredient",
                                      name |-> getUniqueIngredientsName(ingredientsStr),
                                      detail |-> escapeQuotes(json)],
                          !.user = userVertex])

addCuisineDetail(p, cuisine, json, userVertex) ==
    begin(p, [Idle EXCEPT !.pc = "upsertQuery", !.op = "addCuisine",
                          !.vertex = [label |-> "cuisine",
                                      name |-> getUniqueCuisineName(cuisine),
                                      detail |-> escapeQuotes(json)],
                          !.user = userVertex])

addRecipeDetail(p, recipeId, recipeTitle, recipeDetail, ingredientCuisineVertex, userVertex) ==
    begin(p, [Idle EXCEPT !.pc = "upsertQuery", !.op = "addRecipe",
                          !.vertex = [label |-> "recipe",
                                      name |-> getUniqueRecipeName(recipeId),
                                      title |-> escapeQuotes(trim(recipeTitle)),
                                      detail |-> escapeNewlines(escapeQuotes(recipeDetail))],
                          !.origin = ingredientCuisineVertex,
                          !.user = userVertex])

(* --------------------------- specifications --------------------------- *)
\* The graph outlives the process: a run starts on the empty graph, on the
\* graph that addUser("U1"), addUser("U2"), addIngredient("B,A", ..., U1) run
\* one after the other leave behind, or on that graph after
\* addRecipe(" R7", ..., the ingredient, U1).
EmptyGraph ==
    [V |-> <<>>, E |-> <<>>, recorded |-> <<>>]

IngredientGraph ==
    [V |-> <<[label |-> "person", name |-> <<85, 49>>],
             [label |-> "person", name |-> <<85, 50>>],
             [label |-> "ingredient", name |-> getUniqueIngredientsName(<<66, 44, 65>>)]>>,
     E |-> <<selectsEdge(1, 3)>>,
     recorded |-> (<<1, 3>> :> 1)]

RecipeGraph ==
    [V |-> Append(IngredientGraph.V,
                  [label |-> "recipe", name |-> getUniqueRecipeName(<<32, 82, 55>>)]),
     E |-> IngredientGraph.E \o <<selectsEdge(1, 4), selectsEdge(3, 4), hasEdge(4, 3)>>,
     recorded |-> (<<1, 3>> :> 1) @@ (<<1, 4>> :> 1) @@ (<<3, 4>> :> 1)]

InitStore(graphs, max) ==
    /\ budget = max
    /\ \E g \in graphs :
           /\ V = g.V
           /\ E = g.E
           /\ started = g.recorded
           /\ completed = g.recorded
    /\ st = [p \in Procs |-> Idle]
    /\ ops = 0
    /\ faults = 0

InitLoop ==
    /\ rPaths = <<>>
    /\ rCount = 0
    /\ rI = 0
    /\ recipes = <<>>
    /\ recipeHash = <<>>

Graphs == {EmptyGraph, IngredientGraph, RecipeGraph}

Init == InitStore(Graphs, MaxOps) /\ InitLoop /\ InitBound

Next ==
    \E p \in Procs :
        \/ \E userId \in Users : addUser(p, userId)
        \/ \E s \in IngredientInputs, u \in personIds : addIngredient(p, s, u)
        \/ \E c \in CuisineInputs, u \in personIds : addCuisine(p, c, u)
        \/ \E r \in RecipeIds, o \in originIds \cup {0}, u \in personIds :
               addRecipe(p, r, o, u)
        \/ \E s \in IngredientInputs, u \in personIds, n \in 0..MaxLimit :
               findRecommendedRecipesForIngredient(p, s, u, n)
        \/ \E c \in CuisineInputs, u \in personIds, n \in 0..MaxLimit :
               findRecommendedRecipesForCuisine(p, c, u, n)
        \/ addVertexIfNotExists(p)
        \/ createVertex(p)
        \/ addUpdateEdge(p)
        \/ updateEdge(p)
        \/ createEdge(p)
        \/ addEdgeIfNotExists(p)
        \/ runGremlinQueryRejects(p)

\* concurrent requests against one graph
Spec == Init /\ [][Next]_vars

InitSeq == InitStore(Graphs, MaxOps + 1) /\ InitLoop /\ InitBound

NextSeq ==
    \E p \in SeqProcs :
        \/ \E userId \in Users : addUser(p, userId)
        \/ \E s \in IngredientInputs, u \in personIds : addIngredient(p, s, u)
        \/ \E c \in CuisineInputs, u \in personIds : addCuisine(p, c, u)
        \/ \E r \in RecipeIds, o \in originIds \cup {0}, u \in personIds :
               addRecipe(p, r, o, u)
        \/ \E s \in IngredientInputs, u \in personIds, n \in 0..MaxLimit :
               findRecommendedRecipesForIngredient(p, s, u, n)
        \/ \E c \in CuisineInputs, u \in personIds, n \in 0..MaxLimit :
               findRecommendedRecipesForCuisine(p, c, u, n)
        \/ addVertexIfNotExists(p)
        \/ createVertex(p)
        \/ addUpdateEdge(p)
        \/ updateEdge(p)
        \/ createEdge(p)
        \/ addEdgeIfNotExists(p)
        \/ runGremlinQueryRejects(p)

\* one request at a time: every operation settles before the next is issued
SpecSeq == InitSeq /\ [][NextSeq]_vars

InitSelects == InitStore({IngredientGraph}, MaxRecords) /\ InitLoop /\ InitBound

NextSelects ==
    \E p \in Procs :
        \/ \E s \in IngredientInputs : addIngredient(p, s, 1)
        \/ \E r \in RecipeIds : addRecipe(p, r, 3, 1)
        \/ addVertexIfNotExists(p)
        \/ createVertex(p)
        \/ addUpdateEdge(p)
        \/ updateEdge(p)
        \/ createEdge(p)
        \/ addEdgeIfNotExists(p)
        \/ runGremlinQueryRejects(p)

\* concurrent requests of user U1 that all record the same selects edges:
\* U1 -> "a,b", and U1 -> "r7" with origin "a,b"
SpecSelects == InitSelects /\ [][NextSelects]_vars

InitRecommend == InitStore({IngredientGraph, RecipeGraph}, MaxOps) /\ InitLoop /\ InitBound

NextRecommend ==
    \E p \in Procs :
        \/ \E r \in RecipeIds, u \in personIds : addRecipe(p, r, 3, u)
        \/ \E s \in IngredientInputs, u \in personIds, n \in 0..MaxLimit :
               findRecommendedRecipesForIngredient(p, s, u, n)
        \/ \E c \in CuisineInputs, u \in personIds, n \in 0..MaxLimit :
               findRecommendedRecipesForCuisine(p, c, u, n)
        \/ addVertexIfNotExists(p)
        \/ createVertex(p)
        \/ addUpdateEdge(p)
        \/ updateEdge(p)
        \/ createEdge(p)
        \/ addEdgeIfNotExists(p)
        \/ runGremlinQueryRejects(p)

\* concurrent requests that select the recipe "r7" for the ingredient "a,b"
\* and ask for recommendations
SpecRecommend == InitRecommend /\ [][NextRecommend]_vars


\* U1, U2, the ingredient "a,b" and the recipes "r7", "r8"; the selects edges
\* U1 -> "a,b", U1 -> "r7", U1 -> "r8", U2 -> "r8", each absent or with a
\* count up to MaxCount: the graphs addUser, addIngredient and addRecipe
\* (without origin) leave behind when run one after the other
FavoritePairs == <<<<1, 3>>, <<1, 4>>, <<1, 5>>, <<2, 5>>>>

RECURSIVE seededEdges(_, _)
seededEdges(c, i) ==
    IF i > Len(FavoritePairs) THEN <<>>
    ELSE (IF c[i] = 0 THEN <<>>
          ELSE <<[selectsEdge(FavoritePairs[i][1], FavoritePairs[i][2])
                     EXCEPT !.properties = [k \in {"count"} |-> c[i]]]>>)
         \o seededEdges(c, i + 1)

FavoriteGraphs ==
    {[V |-> IngredientGraph.V
              \o <<[label |-> "recipe", name |-> getUniqueRecipeName(<<32, 82, 55>>)],
                   [label |-> "recipe", name |-> getUniqueRecipeName(<<82, 56>>)]>>,
      E |-> seededEdges(c, 1),
      recorded |-> [k \in {FavoritePairs[i] : i \in {j \in 1..Len(FavoritePairs) : c[j] > 0}}
                      |-> c[CHOOSE i \in 1..Len(FavoritePairs) : FavoritePairs[i] = k]]] :
        c \in [1..Len(FavoritePairs) -> 0..MaxCount]}

InitFavorites == InitStore(FavoriteGraphs, MaxOps) /\ InitLoop /\ InitBound

NextFavorites ==
    \E p \in SeqProcs :
        \/ \E r \in RecipeIds, u \in personIds : addRecipe(p, r, 0, u)
        \/ \E u \in personIds, n \in 0..MaxLimit : findFavoriteRecipesForUser(p, u, n)
        \/ addVertexIfNotExists(p)
        \/ addUpdateEdge(p)
        \/ updateEdge(p)
        \/ createEdge(p)
        \/ runGremlinQueryRejects(p)

\* one request at a time selects the recipe "r7" and asks for favorites
SpecFavorites == InitFavorites /\ [][NextFavorites]_vars

InitRecipe == InitStore({IngredientGraph}, MaxRecords) /\ InitLoop /\ InitBound

NextRecipe ==
    \E p \in SeqProcs :
        \/ \E r \in RecipeIds, u \in personIds : addRecipe(p, r, 3, u)
        \/ addVertexIfNotExists(p)
        \/ createVertex(p)
        \/ addUpdateEdge(p)
        \/ updateEdge(p)
        \/ createEdge(p)
        \/ addEdgeIfNotExists(p)
        \/ runGremlinQueryRejects(p)

\* addRecipe(" R7", ..., the ingredient "a,b", a user) called again and again,
\* each call after the one before has settled, on a graph without the recipe
SpecRecipe == InitRecipe /\ [][NextRecipe]_vars

\* ' ', ',', 'A', 'a', 'b'
KeyAlphabet == {32, 44, 65, 97, 98}

KeyInputs == UNION {[1..n -> KeyAlphabet] : n \in 0..MaxKeyLen}

\* RecipeGraph after a second addRecipe(" R7", ..., the ingredient, U1)
PopularGraph ==
    [V |-> RecipeGraph.V,
     E |-> [e \in 1..Len(RecipeGraph.E) |->
               IF RecipeGraph.E[e].inV = 4
               THEN [RecipeGraph.E[e] EXCEPT !.properties = [k \in {"count"} |-> 2]]
               ELSE RecipeGraph.E[e]],
     recorded |-> (<<1, 3>> :> 1) @@ (<<1, 4>> :> 2) @@ (<<3, 4>> :> 2)]

InitKey ==
    /\ InitStore({PopularGraph}, MaxOps)
    /\ InitLoop
    /\ InitClientBound
    /\ input \in KeyInputs
    /\ output = <<>>

NextKey ==
    \E p \in SeqProcs :
        \/ \E u \in personIds : addIngredient(p, input, u)
        \/ findIngredient(p, input)
        \/ \E u \in personIds, n \in 0..MaxLimit :
               findRecommendedRecipesForIngredient(p, input, u, n)
        \/ addVertexIfNotExists(p)
        \/ createVertex(p)
        \/ addUpdateEdge(p)
        \/ updateEdge(p)
        \/ createEdge(p)
        \/ runGremlinQueryRejects(p)

\* the ingredient operations called, one at a time, with any ingredient
\* string over KeyAlphabet
SpecKey == InitKey /\ [][NextKey]_vars

InitClient ==
    /\ InitStore({EmptyGraph}, 0)
    /\ InitLoop
    /\ remote \in SUBSET GraphIds
    /\ graphId = "none"
    /\ boot = Unstarted
    /\ input = <<>>
    /\ output = <<>>
    /\ stores = <<>>
    /\ sent = <<>>

NextClient ==
    \/ \E id \in GraphIds : init(id)
    \/ \E r \in Responses : graphExists(r)
    \/ \E r \in Responses : getOrCreateGraph(r)
    \/ \E r \in Responses : runGremlinQuery(r)

\* the client from construction: init() against a service that holds the
\* graph or not, then scripts
SpecClient == InitClient /\ [][NextClient]_vars

\* backslash, double quote, dollar sign, 'a'
ValueAlphabet == {92, 34, 36, 97}

InitEscape ==
    /\ InitStore({EmptyGraph}, 0)
    /\ InitLoop
    /\ InitClientBound
    /\ input \in UNION {[1..n -> ValueAlphabet] : n \in 0..MaxValueLen}
    /\ output = <<>>

\* every string value over ValueAlphabet embedded in a script
SpecEscape == InitEscape /\ [][embedStringValue]_vars

InitOrigin == InitStore({IngredientGraph, RecipeGraph}, MaxOps) /\ InitLoop /\ InitBound

NextOrigin ==
    \E p \in Procs :
        \/ \E r \in RecipeIds, o \in {0, 3}, u \in personIds : addRecipe(p, r, o, u)
        \/ addVertexIfNotExists(p)
        \/ createVertex(p)
        \/ addUpdateEdge(p)
        \/ updateEdge(p)
        \/ createEdge(p)
        \/ addEdgeIfNotExists(p)
        \/ runGremlinQueryRejects(p)

\* concurrent requests that select the recipe "r7", with the origin "a,b"
\* or without an origin
SpecOrigin == InitOrigin /\ [][NextOrigin]_vars

InitShared ==
    /\ InitStore({EmptyGraph}, 0)
    /\ InitLoop
    /\ remote = {storeGraphId[s] : s \in Stores}
    /\ graphId = "none"
    /\ boot = Unstarted
    /\ input = <<>>
    /\ output = <<>>
    /\ stores = [s \in Stores |-> NewStore]
    /\ sent = <<>>

NextShared ==
    \E s \in Stores :
        \/ initOf(s)
        \/ setGraphId(s)
        \/ sendScript(s)

\* two stores with different graph ids share one client
SpecShared == InitShared /\ [][NextShared]_vars

\* "[]" and "['x']"
Jsons == {<<91, 93>>, <<91, 39, 120, 39, 93>>}
\* " T" and "T's"
Titles == {<<32, 84>>, <<84, 39, 115>>}
\* "d" and "d", line feed, "e"
RecipeDetails == {<<100>>, <<100, 10, 101>>}

\* the graph after addUser("U1"), addUser("U2")
UsersGraph ==
    [V |-> SubSeq(IngredientGraph.V, 1, 2), E |-> <<>>, recorded |-> <<>>]

\* and after addIngredient("B,A", [], U1) and addRecipe(" R7", " T", "d", null, U1)
DetailGraph ==
    [V |-> UsersGraph.V
              \o <<[label |-> "ingredient",
                    name |-> getUniqueIngredientsName(<<66, 44, 65>>),
                    detail |-> escapeQuotes(<<91, 93>>)],
                   [label |-> "recipe",
                    name |-> getUniqueRecipeName(<<32, 82, 55>>),
                    title |-> escapeQuotes(trim(<<32, 84>>)),
                    detail |-> escapeNewlines(escapeQuotes(<<100>>))]>>,
     E |-> <<selectsEdge(1, 3), selectsEdge(1, 4)>>,
     recorded |-> (<<1, 3>> :> 1) @@ (<<1, 4>> :> 1)]

InitDetail == InitStore({UsersGraph, DetailGraph}, MaxOps) /\ InitLoop /\ InitBound

NextDetail ==
    \E p \in SeqProcs :
        \/ \E s \in IngredientInputs, j \in Jsons : addIngredientDetail(p, s, j, 1)
        \/ \E c \in CuisineInputs, j \in Jsons : addCuisineDetail(p, c, j, 1)
        \/ \E r \in RecipeIds, t \in Titles, d \in RecipeDetails, o \in originIds \cup {0} :
               addRecipeDetail(p, r, t, d, o, 1)
        \/ addVertexIfNotExists(p)
        \/ createVertex(p)
        \/ addUpdateEdge(p)
        \/ updateEdge(p)
        \/ createEdge(p)
        \/ addEdgeIfNotExists(p)
        \/ runGremlinQueryRejects(p)

\* user U1 adds ingredients, cuisines and recipes with their details and
\* titles, one request at a time
SpecDetail == InitDetail /\ [][NextDetail]_vars

InitPaths ==
    /\ InitStore({EmptyGraph}, 0)
    /\ InitBound
    /\ rPaths \in UNION {[1..n -> LoopKeys] : n \in 0..MaxPaths}
    /\ rCount \in 0..MaxLimit
    /\ rI = 0
    /\ recipes = <<>>
    /\ recipeHash = <<>>

\* getRecommendedRecipes run on every path list, one path per step
SpecLoop == InitPaths /\ [][loopStep]_vars

(* ------------------------------- claims ------------------------------- *)
count(e) == E[e].properties.count

\* C1: in every reachable state there is at most one vertex for each
\* (label, name) pair, whatever the interleaving of the store operations.
C1_VertexUniqueness ==
    \A i, j \in 1..Len(V) :
        (V[i].label = V[j].label /\ V[i].name = V[j].name) => i = j

\* C2: in every reachable state there is at most one edge for each ordered
\* triple (label, outV, inV), whatever the interleaving.
C2_EdgeUniqueness ==
    \A e, f \in 1..Len(E) :
        (/\ E[e].label = E[f].label
         /\ E[e].outV = E[f].outV
         /\ E[e].inV = E[f].inV) => e = f

\* C3: no step makes the stored count of a selects edge smaller than it was,
\* also when recordings of one ordered pair interleave between read and write.
C3_CountMonotone ==
    [][\A e \in 1..Len(E) :
          E[e].label = "selects" => E'[e].properties.count >= count(e)]_vars


\* the ordered pairs that carry an edge or for which a recording completed
recordedPairs ==
    DOMAIN completed \cup {<<E[e].outV, E[e].inV>> : e \in 1..Len(E)}

selectsPairs ==
    {<<E[e].outV, E[e].inV>> : e \in {f \in 1..Len(E) : E[f].label = "selects"}}

\* C4: when the recordings of an ordered pair run one after another, the
\* pair has exactly one selects edge and its count is the number N >= 1 of
\* recordings completed; input variants of one ingredient list address one
\* ingredient vertex.
C4_SequentialCount ==
    /\ \A k \in DOMAIN completed \cup selectsPairs :
           /\ Get(completed, k) >= 1
           /\ Cardinality(edgesBetween(k[1], k[2])) = 1
           /\ \A e \in edgesBetween(k[1], k[2]) :
                  E[e].label = "selects" /\ hasCount(e) /\ count(e) = completed[k]
    /\ \A s \in IngredientInputs :
           Cardinality({i \in 1..Len(V) :
                           /\ V[i].label = "ingredient"
                           /\ V[i].name = getUniqueIngredientsName(s)}) <= 1

\* addIngredient was called again for U1 with a variant of "B,A": one
\* ingredient vertex, and the edge U1 -> ingredient has count >= 2
C4_Witness ==
    /\ st["p1"].op = "addIngredient"
    /\ st["p1"].status = "resolved"
    /\ faults = 0
    /\ \E e \in 1..Len(E) :
           /\ E[e].label = "selects"
           /\ V[E[e].outV].label = "person"
           /\ V[E[e].inV].label = "ingredient"
           /\ E[e].inV = st["p1"].ret
           /\ count(e) >= 2
           /\ count(e) = completed[<<E[e].outV, E[e].inV>>]

\* the write of an addUpdateEdge call of request p takes effect in this step
writes(p) ==
    /\ st[p].pc = "updateEdge"
    /\ st'[p] # st[p]
    /\ completed' # completed

\* C5: an update is lost when recordings of one edge interleave: a write
\* stores the count read plus one, so when other writes were stored between
\* its read and its write the stored count falls behind the number of
\* completed recordings, and it keeps pace when none was.
C5_LostUpdate ==
    [][\A p \in Procs :
          writes(p) =>
              LET e == st[p].eid
                  k == pairOf(st[p])
                  read == st[p].properties.count - 1
                  behind == Get(completed, k) - count(e)
                  behindAfter == Get(completed', k) - E'[e].properties.count
              IN  /\ count(e) = read => behindAfter = behind
                  /\ count(e) > read => behindAfter > behind]_vars

\* every recording of U1 -> "a,b" completed, none failed, at least two ran
\* on the existing edge, and its count is below the initial count plus N
C5_Witness ==
    /\ \A p \in Procs : st[p].pc = "idle" /\ st[p].status # "rejected"
    /\ faults = 0
    /\ Cardinality(edgesBetween(1, 3)) = 1
    /\ started[<<1, 3>>] = completed[<<1, 3>>]
    /\ completed[<<1, 3>>] >= 3
    /\ \A e \in edgesBetween(1, 3) : count(e) < completed[<<1, 3>>]

\* the vertex a request holds once its upsert returned
returned(me) == IF me.pc = "idle" THEN me.ret ELSE me.v

\* C6: with one request at a time there is never a second vertex for a
\* (label, name); an upsert whose lookup finds the vertex issues no creation,
\* leaves the graph alone and returns that vertex, and the upsert that
\* finds none issues the creation, which returns the vertex it adds.
C6_UpsertIdempotent ==
    /\ []C1_VertexUniqueness
    /\ [][\A p \in SeqProcs :
             LET me == st[p]
                 match == {i \in 1..Len(V) : V[i] = me.vertex}
             IN  /\ (/\ me.pc = "upsertQuery"
                     /\ st'[p] # me
                     /\ st'[p].status # "rejected")
                    => IF match # {}
                       THEN /\ V' = V
                            /\ st'[p].pc # "createVertex"
                            /\ returned(st'[p]) \in match
                       ELSE st'[p].pc = "createVertex"
                 /\ (me.pc = "createVertex" /\ V' # V /\ returned(st'[p]) # 0)
                    => /\ V' = Append(V, me.vertex)
                       /\ returned(st'[p]) = Len(V')]_vars

\* addUser("U1") ran twice on the empty graph, one after the other: one
\* vertex, returned by the second call as well
C6_Witness ==
    /\ Len(V) = 1
    /\ ops = 2
    /\ faults = 0
    /\ st["p1"].op = "addUser"
    /\ st["p1"].status = "resolved"
    /\ st["p1"].ret = 1

emitted == {recipes[i].id : i \in 1..Len(recipes)}

\* C7: once `count` distinct recipes are emitted, a path whose recipe was not
\* emitted is skipped and no recipe is emitted any more, while a path whose
\* recipe is emitted adds 1 to that recipe's recommendedUserCount and
\* changes nothing else; the result never holds more than `count` recipes.
C7_TwoTierLimit ==
    /\ [](Len(recipes) <= rCount)
    /\ [][rI' = rI + 1 =>
             LET id == rPaths[rI + 1]
             IN  /\ (id \notin emitted /\ Len(recipes) >= rCount)
                    => recipes' = recipes
                 /\ Len(recipes) >= rCount => emitted' = emitted
                 /\ id \in emitted
                    => /\ Len(recipes') = Len(recipes)
                       /\ \A i \in 1..Len(recipes) :
                              /\ recipes'[i].id = recipes[i].id
                              /\ recipes'[i].recommendedUserCount =
                                     recipes[i].recommendedUserCount
                                         + (IF recipes[i].id = id THEN 1 ELSE 0)]_vars

\* the cap was reached, a new recipe was skipped, and a later path of an
\* emitted recipe was still counted
C7_Witness ==
    /\ rI = Len(rPaths)
    /\ rCount >= 1
    /\ Len(recipes) = rCount
    /\ \E j, l \in 1..Len(rPaths) :
           /\ j < l
           /\ rPaths[j] \notin emitted
           /\ \E i \in 1..Len(recipes) :
                  /\ recipes[i].id = rPaths[l]
                  /\ recipes[i].recommendedUserCount >= 2

\* the distinct elements of s, each at its first occurrence
RECURSIVE distinctInOrder(_, _)
distinctInOrder(s, seen) ==
    IF s = <<>> THEN <<>>
    ELSE IF Head(s) \in seen THEN distinctInOrder(Tail(s), seen)
    ELSE <<Head(s)>> \o distinctInOrder(Tail(s), seen \cup {Head(s)})

Min(a, b) == IF a <= b THEN a ELSE b

\* C8: the loop over a path list returns min(count, D) entries, D the
\* number of distinct recipe names in the paths: the first min(count, D)
\* distinct names in path order, none twice.
C8_FirstDistinct ==
    rI = Len(rPaths) =>
        LET D == Cardinality({rPaths[i] : i \in 1..Len(rPaths)})
        IN  /\ Len(recipes) = Min(rCount, D)
            /\ [i \in 1..Len(recipes) |-> recipes[i].id]
                   = SubSeq(distinctInOrder(rPaths, {}), 1, Min(rCount, D))
            /\ \A i, j \in 1..Len(recipes) :
                   recipes[i].id = recipes[j].id => i = j
            /\ recommendedRecipes(rPaths, rCount) = recipes

\* the counts of the edges from the persons named userName to recipes named id
countsTo(userName, id) ==
    {count(e) : e \in {f \in outE(userName) :
                          isRecipeEdge(f) /\ V[E[f].inV].name = id}}

\* C11: findFavoriteRecipes returns at most `count` entries, each a recipe
\* the person has an outgoing edge to, in non-increasing order of the count
\* of that edge, and they are the person's highest-count recipes: as many
\* as the limit allows, none with a smaller count than a recipe left out.
C11_Favorites ==
    \A p \in SeqProcs :
        (st[p].op = "findFavoriteRecipesForUser" /\ st[p].status = "resolved") =>
            LET rs == st[p].result
                userName == V[st[p].user].name
                recipeEdges == {e \in outE(userName) : isRecipeEdge(e)}
                ids == {rs[i].id : i \in 1..Len(rs)}
            IN  /\ Len(rs) <= st[p].count
                /\ Len(rs) = Min(st[p].count, Cardinality(recipeEdges))
                /\ \A i \in 1..Len(rs) : countsTo(userName, rs[i].id) # {}
                /\ \A i, j \in 1..Len(rs) :
                       i < j => \A a \in countsTo(userName, rs[i].id),
                                   b \in countsTo(userName, rs[j].id) : a >= b
                /\ \A e \in recipeEdges :
                       V[E[e].inV].name \notin ids =>
                           \A i \in 1..Len(rs) :
                               \A a \in countsTo(userName, rs[i].id) : a >= count(e)

\* U1 has a higher count to the ingredient than to either recipe, and
\* different counts to the two recipes; limit 1 returned the higher recipe
C11_Witness ==
    /\ st["p1"].op = "findFavoriteRecipesForUser"
    /\ st["p1"].status = "resolved"
    /\ st["p1"].count = 1
    /\ Len(st["p1"].result) = 1
    /\ \E a, b, c \in outE(V[st["p1"].user].name) :
           /\ ~isRecipeEdge(a) /\ isRecipeEdge(b) /\ isRecipeEdge(c)
           /\ count(a) > count(b) /\ count(b) > count(c)
           /\ V[E[b].inV].name = st["p1"].result[1].id

\* C12: after N >= 1 addRecipe calls with the origin "a,b", run one after
\* the other with every remote call succeeding, on a graph that had no such
\* recipe: one recipe vertex, one selects edge origin -> recipe with count N,
\* for each user one selects edge user -> recipe whose count is the number
\* of that user's calls (1 after the first, +1 per repetition), and one has
\* edge recipe -> origin; there is never a second has edge.
C12_AddRecipe ==
    LET rs == findVertexIds("recipe", getUniqueRecipeName(<<32, 82, 55>>))
    IN  /\ \A r \in rs : Cardinality(edgesBetween(r, 3)) <= 1
        /\ (st["p1"].pc = "idle" /\ faults = 0 /\ ops >= 1) =>
               /\ Cardinality(rs) = 1
               /\ \A r \in rs :
                      /\ \E e \in 1..Len(E) :
                             /\ edgesBetween(3, r) = {e}
                             /\ E[e].label = "selects"
                             /\ count(e) = ops
                      /\ \E h \in 1..Len(E) :
                             /\ edgesBetween(r, 3) = {h}
                             /\ E[h].label = "has"
                      /\ Get(completed, <<1, r>>) + Get(completed, <<2, r>>) = ops
                      /\ \A u \in personIds :
                             IF Get(completed, <<u, r>>) = 0
                             THEN edgesBetween(u, r) = {}
                             ELSE \E e \in 1..Len(E) :
                                      /\ edgesBetween(u, r) = {e}
                                      /\ E[e].label = "selects"
                                      /\ count(e) = completed[<<u, r>>]

\* U1 repeated the call: both selects counts are at least 2
C12_Witness ==
    /\ st["p1"].pc = "idle"
    /\ st["p1"].status = "resolved"
    /\ faults = 0
    /\ ops >= 2
    /\ Get(completed, <<1, 4>>) >= 2
    /\ \E e \in edgesBetween(3, 4) : count(e) >= 2
    /\ Cardinality(edgesBetween(4, 3)) = 1

\* the ingredients a string names: its comma-separated elements, each
\* without leading and trailing whitespace and in lower case
ElementsOf ==
    [s \in KeyInputs |->
        LET xs == split(s) IN [i \in 1..Len(xs) |-> toLowerCase(trim(xs[i]))]]

KeyOf == [s \in KeyInputs |-> getUniqueIngredientsName(s)]

occurrences(xs, x) == Cardinality({i \in 1..Len(xs) : xs[i] = x})

sameMultiset(s, t) ==
    LET a == ElementsOf[s]
        b == ElementsOf[t]
    IN  /\ Len(a) = Len(b)
        /\ \A i \in 1..Len(a) : occurrences(a, a[i]) = occurrences(b, a[i])

\* C13: two strings that name the same multiset of ingredients (in any
\* order, case and padding of the elements) have the same key; the key of a
\* key is the key; addIngredient stores under the key and returns the vertex
\* that every such string is looked up by, findIngredient finds the vertex of
\* that name, and recommendations start from it.
C13_CanonicalKey ==
    /\ ops = 0 =>
           /\ \A t \in KeyInputs :
                  sameMultiset(input, t) => KeyOf[t] = KeyOf[input]
           /\ getUniqueIngredientsName(KeyOf[input]) = KeyOf[input]
    /\ \A p \in SeqProcs :
           /\ (st[p].op = "addIngredient" /\ st[p].status = "resolved") =>
                  /\ V[st[p].ret] = [label |-> "ingredient", name |-> KeyOf[input]]
                  /\ findVertexIds("ingredient", KeyOf[input]) = {st[p].ret}
           /\ (st[p].op = "findIngredient" /\ st[p].status = "resolved") =>
                  IF st[p].ret = 0
                  THEN \A i \in 1..Len(V) :
                           V[i] # [label |-> "ingredient", name |-> KeyOf[input]]
                  ELSE V[st[p].ret] = [label |-> "ingredient", name |-> KeyOf[input]]
           /\ (/\ st[p].op = "findRecommendedRecipesForIngredient"
               /\ st[p].status = "resolved"
               /\ st[p].result # <<>>) =>
                  \E h \in 1..Len(E) :
                      /\ E[h].label = "has"
                      /\ V[E[h].inV] = [label |-> "ingredient", name |-> KeyOf[input]]
                      /\ V[E[h].outV].name = st[p].result[1].id

\* "B ,a" style input: not its own key, yet the recommendation query found
\* the recipe of the ingredient "a,b"
C13_Witness ==
    /\ input # getUniqueIngredientsName(input)
    /\ \E i \in 1..Len(input) : input[i] = 65
    /\ st["p1"].op = "findRecommendedRecipesForIngredient"
    /\ st["p1"].status = "resolved"
    /\ st["p1"].result # <<>>

\* C14: once init has resolved, the graph exists on the service and is the
\* graph the client holds; the client holds no graph before getOrCreateGraph
\* has settled.
C14_InitEnsures ==
    /\ boot.settled = "resolved" => (boot.id \in remote /\ graphId = boot.id)
    /\ graphId # "none" => boot.ensure # "none"

is200(r) == r.kind = "body" /\ r.hasStatus /\ r.code = 200

\* C15: graphExists resolves for every outcome of the remote call, and with
\* true only when the response status code is 200.
C15_ProbeNeverRejects ==
    [][(boot.pc = "graphExists" /\ boot'.pc # "graphExists") =>
          /\ boot'.probe = "resolved"
          /\ boot'.exists = "true" => is200(boot'.opened)]_vars

\* the call failed at transport level, or answered without a body, and
\* graphExists resolved false
C15_Witness ==
    /\ boot.opened.kind \in {"error", "nobody"}
    /\ boot.probe = "resolved"
    /\ boot.exists = "false"

\* C16: getOrCreateGraph sends the open script first and the create script
\* if and only if graphExists did not report the graph; it resolves true when
\* the graph existed or the create response has status 200, resolves a false
\* value when the create response has another status, and rejects only when
\* the create call fails at transport level.
C16_EnsureGraph ==
    /\ boot.calls # <<>> => boot.calls[1] = "open"
    /\ boot.calls = <<"open", "create">> <=>
           (boot.probe # "none" /\ ~truthy(boot.exists))
    /\ boot.calls \in {<<>>, <<"open">>, <<"open", "create">>}
    /\ boot.ensure # "none" =>
           /\ (truthy(boot.exists) \/ is200(boot.created)) =>
                  (boot.ensure = "resolved" /\ boot.value = "true")
           /\ (boot.created.kind = "body" /\ ~is200(boot.created)) =>
                  (boot.ensure = "resolved" /\ ~truthy(boot.value))
           /\ boot.ensure = "rejected" => boot.created.kind = "error"

\* C17: runGremlinQuery resolves if and only if the response status code is
\* 200; a response whose status is missing or not 200 rejects with the
\* invalid-status error, a transport failure rejects, and no failure
\* resolves.
C17_Execute ==
    boot.query # "none" =>
        /\ boot.query = "resolved" <=> is200(boot.ran)
        /\ (boot.ran.kind = "body" /\ ~is200(boot.ran)) =>
               /\ boot.query = "rejected"
               /\ boot.error = "Invalid status returned from server."
        /\ boot.ran.kind = "error" => boot.query = "rejected"
        /\ boot.query \in {"resolved", "rejected"}

\* a response without status rejected with the invalid-status error
C17_Witness ==
    /\ boot.ran.kind = "body"
    /\ ~boot.ran.hasStatus
    /\ boot.query = "rejected"
    /\ boot.error = "Invalid status returned from server."

\* C18: a remote call that fails ends its operation: the request is idle
\* and rejected, no vertex or edge is removed or changed by the failing
\* step, and the next step of the request, if any, starts a new operation.
C18_FailureIsFinal ==
    [][\A p \in Procs :
          /\ (/\ st[p].pc \in InFlight
              /\ st'[p] # st[p]
              /\ st'[p].status = "rejected") =>
                 /\ st'[p].pc = "idle"
                 /\ E' = E
                 /\ V' \in {V, Append(V, st[p].vertex)}
                 /\ V' # V => st[p].pc = "createVertex"
          /\ (st[p].status = "rejected" /\ st'[p] # st[p]) =>
                 (st[p].pc = "idle" /\ ops' = ops + 1)]_vars

\* an addRecipe was rejected after its user -> recipe edge was recorded and
\* its origin -> recipe recording was begun: the first edge stays, the
\* second recording never completed
C18_Witness ==
    /\ \A p \in Procs : st[p].pc = "idle"
    /\ \E p \in Procs : st[p].op = "addRecipe" /\ st[p].status = "rejected"
    /\ \E r \in 1..Len(V) :
           /\ V[r].label = "recipe"
           /\ Get(started, <<3, r>>) > Get(completed, <<3, r>>)
           /\ \E e \in edgesBetween(1, r) : count(e) >= 1

\* C19: no step removes a vertex or an edge: every vertex stays as it is and
\* every edge keeps its label and its end points.
C19_GraphOnlyGrows ==
    [][/\ Len(V') >= Len(V)
       /\ \A i \in 1..Len(V) : V'[i] = V[i]
       /\ Len(E') >= Len(E)
       /\ \A e \in 1..Len(E) :
              /\ E'[e].label = E[e].label
              /\ E'[e].outV = E[e].outV
              /\ E'[e].inV = E[e].inV]_vars

\* the graph of the users and the ingredient has grown by a vertex and an edge
C19_Witness ==
    /\ Len(V) = 4
    /\ Len(E) = 2
    /\ SubSeq(V, 1, 3) = IngredientGraph.V

\* the backslashes right before position i of s
RECURSIVE backslashesBefore(_, _)
backslashesBefore(s, i) ==
    IF i > 1 /\ s[i - 1] = 92 THEN 1 + backslashesBefore(s, i - 1) ELSE 0

\* C20: in the escaped value, every double quote and every dollar sign is
\* preceded by an odd number of consecutive backslashes.
C20_Escaped ==
    output # <<>> =>
        \A i \in 2..(Len(output) - 1) :
            output[i] \in {34, 36} => backslashesBefore(output, i) % 2 = 1

\* the request `me` waits for the lookup of the weighted edge outV -> inV,
\* the `stage`-th edge of its operation
recording(me, stage, outV, inV) ==
    /\ me.pc = "updateQuery"
    /\ me.stage = stage
    /\ me.edge = selectsEdge(outV, inV)

settledAs(me, status) == me.pc = "idle" /\ me.status = status

\* C21: every remote call of an operation is issued by the answer to the
\* call before it, in the order vertex lookup, vertex create (if absent),
\* user -> vertex lookup and write, and for addRecipe with an origin
\* origin -> recipe lookup and write, recipe -> origin lookup and create (if
\* absent); the first edge call names the vertex the upsert returned.
C21_Sequential ==
    [][\A p \in Procs :
          LET me == st[p]
              next == st'[p]
              withOrigin == me.op = "addRecipe" /\ me.origin # 0
          IN  (me.pc # "idle" /\ next # me) =>
                  \/ settledAs(next, "rejected")
                  \/ /\ me.pc = "upsertQuery"
                     /\ \/ next = [me EXCEPT !.pc = "createVertex"]
                        \/ /\ recording(next, 1, me.user, next.v)
                           /\ next.v \in 1..Len(V)
                           /\ V[next.v] = me.vertex
                        \/ me.op = "addUser" /\ settledAs(next, "resolved")
                  \/ /\ me.pc = "createVertex"
                     /\ \/ /\ recording(next, 1, me.user, next.v)
                           /\ next.v = Len(V')
                           /\ V'[next.v] = me.vertex
                        \/ me.op = "addUser" /\ settledAs(next, "resolved")
                  \/ /\ me.pc = "updateQuery"
                     /\ next.pc \in {"updateEdge", "createEdge"}
                     /\ next.stage = me.stage
                     /\ next.edge = me.edge
                  \/ /\ me.pc \in {"updateEdge", "createEdge"}
                     /\ me.stage = 1
                     /\ IF withOrigin
                        THEN recording(next, 2, me.origin, me.v)
                        ELSE settledAs(next, "resolved") /\ next.ret = me.v
                  \/ /\ me.pc \in {"updateEdge", "createEdge"}
                     /\ me.stage = 2
                     /\ next.pc = "ensureQuery"
                     /\ next.stage = 3
                     /\ next.edge = hasEdge(me.v, me.origin)
                  \/ /\ me.pc = "ensureQuery"
                     /\ \/ next = [me EXCEPT !.pc = "createEdge"]
                        \/ settledAs(next, "resolved") /\ next.ret = me.v
                  \/ /\ me.pc = "createEdge"
                     /\ me.stage = 3
                     /\ settledAs(next, "resolved")
                     /\ next.ret = me.v]_vars

\* an addRecipe with an origin waits for its last call, the create of the
\* has edge, while another request is in flight
C21_Witness ==
    \E p, q \in Procs :
        /\ p # q
        /\ st[p].op = "addRecipe"
        /\ st[p].pc = "createEdge"
        /\ st[p].stage = 3
        /\ st[q].pc \in InFlight

\* C22: no has edge carries a count, and the lookup of addEdgeIfNotExists
\* that finds an edge of the pair ends the operation: no create, no update,
\* the graph as it was.
C22_HasExistenceOnly ==
    /\ [](\A e \in 1..Len(E) : E[e].label = "has" => ~hasCount(e))
    /\ [][\A p \in Procs :
             (/\ st[p].pc = "ensureQuery"
              /\ edgesBetween(st[p].edge.outV, st[p].edge.inV) # {}
              /\ st'[p] # st[p]
              /\ ~settledAs(st'[p], "rejected")) =>
                 /\ settledAs(st'[p], "resolved")
                 /\ E' = E
                 /\ V' = V]_vars

\* every addRecipe for the origin "a,b" ran to its end, at least two of
\* them did, and the recipe has its one has edge: a later lookup found it
C22_Witness ==
    /\ \A p \in Procs : st[p].pc = "idle"
    /\ faults = 0
    /\ Get(completed, <<3, 4>>) >= 2
    /\ Get(started, <<3, 4>>) = Get(completed, <<3, 4>>)
    /\ Cardinality({e \in edgesBetween(4, 3) : E[e].label = "has"}) = 1

\* C23: an addRecipe without origin issues the recipe upsert and the lookup
\* and write of the user -> recipe edge only: its steps change no other edge
\* and begin no other recording, and it resolves with the recipe vertex.
C23_NoOrigin ==
    [][\A p \in Procs :
          LET me == st[p]
              next == st'[p]
          IN  (/\ me.op = "addRecipe"
               /\ me.origin = 0
               /\ me.pc # "idle"
               /\ next # me) =>
                  /\ next.pc \in {"idle", "createVertex", "updateQuery",
                                   "updateEdge", "createEdge"}
                  /\ next.pc # "idle" => (next.stage <= 1 /\ next.origin = 0)
                  /\ next.pc \in {"updateQuery", "updateEdge", "createEdge"} =>
                         next.edge = selectsEdge(me.user, next.v)
                  /\ \A e \in 1..Len(E') :
                         (e > Len(E) \/ E'[e] # E[e]) =>
                             /\ E'[e].label = "selects"
                             /\ E'[e].outV = me.user
                             /\ E'[e].inV = me.v
                  /\ \A k \in DOMAIN started' :
                         Get(started', k) # Get(started, k) => k[1] = me.user
                  /\ settledAs(next, "resolved") =>
                         /\ next.ret = me.v
                         /\ V[next.ret] = me.vertex]_vars

\* the recipe was selected twice without origin on the graph that had no
\* recipe: the user's edge was created, then incremented, and nothing
\* connects the ingredient and the recipe
C23_Witness ==
    /\ \E p \in Procs :
           /\ st[p].op = "addRecipe"
           /\ st[p].status = "resolved"
           /\ st[p].ret = 4
    /\ Get(started, <<3, 4>>) = 0
    /\ edgesBetween(3, 4) = {}
    /\ edgesBetween(4, 3) = {}
    /\ \E u \in personIds : \E e \in edgesBetween(u, 4) : count(e) >= 2

\* the last binding before position i of the log, 0 when there is none
lastBind(i) ==
    LET binds == {j \in 1..(i - 1) : sent[j].kind = "bind"}
    IN  IF binds = {} THEN 0 ELSE CHOOSE j \in binds : \A k \in binds : k <= j

\* C24: every script opens the graph id of the last setGraphId before it,
\* whichever store sent it and whenever its operation began.
C24_OpensBoundGraph ==
    \A i \in 1..Len(sent) :
        sent[i].kind = "script" =>
            /\ lastBind(i) # 0
            /\ sent[i].id = sent[lastBind(i)].id

\* store A sent a later script of an operation after store B bound its
\* graph: the script opens B's graph
C24_Witness ==
    \E i \in 1..Len(sent) :
        /\ sent[i].kind = "script"
        /\ sent[i].store = "A"
        /\ ~sent[i].first
        /\ sent[i].id = storeGraphId["B"]
        /\ \E j \in 1..(i - 1) :
               /\ sent[j].kind = "script"
               /\ sent[j].store = "A"
               /\ sent[j].id = storeGraphId["A"]
               /\ \A k \in (j + 1)..(i - 1) : sent[k].store = "B"

\* C25: every selects edge has a count, the count is at least 1, and it is
\* at most the number of addUpdateEdge calls begun for the edge's ordered
\* pair, whatever the interleaving.
C25_NoOverCount ==
    \A e \in 1..Len(E) :
        E[e].label = "selects" =>
            /\ hasCount(e)
            /\ count(e) \in Nat
            /\ count(e) >= 1
            /\ count(e) <= Get(started, <<E[e].outV, E[e].inV>>)

\* three recordings of one pair ran to their end, interleaved: the edge
\* counts fewer than were begun
C25_Witness ==
    /\ \A p \in Procs : st[p].pc = "idle"
    /\ faults = 0
    /\ \E e \in 1..Len(E) :
           /\ E[e].label = "selects"
           /\ Get(completed, <<E[e].outV, E[e].inV>>) = 3
           /\ count(e) = 2

\* C26: a step of addIngredient, addCuisine or addRecipe leaves every vertex
\* of the graph as it is; the upsert that finds a vertex of its label and
\* name goes on with that vertex, creating none, whatever detail and title
\* the call supplies.
C26_UpsertKeepsVertex ==
    [][\A p \in SeqProcs :
          LET me == st[p]
              next == st'[p]
          IN  (/\ me.op \in {"addIngredient", "addCuisine", "addRecipe"}
               /\ me.pc # "idle"
               /\ next # me) =>
                  /\ \A i \in 1..Len(V) : V'[i] = V[i]
                  /\ (/\ me.pc = "upsertQuery"
                      /\ findVertexIds(me.vertex.label, me.vertex.name) # {}
                      /\ ~settledAs(next, "rejected")) =>
                         /\ V' = V
                         /\ next.pc = "updateQuery"
                         /\ next.v \in findVertexIds(me.vertex.label, me.vertex.name)]_vars

\* a request goes on to its edge with the vertex found, whose detail is not
\* the detail the call supplied
C26_Witness ==
    \E p \in SeqProcs :
        /\ st[p].pc = "updateEdge"
        /\ st[p].vertex.label \in {"ingredient", "recipe"}
        /\ V[st[p].v].label = st[p].vertex.label
        /\ V[st[p].v].name = st[p].vertex.name
        /\ V[st[p].v].detail # st[p].vertex.detail

\* C27: no ordered pair carries both a selects edge and a has edge; the
\* lookup of addUpdateEdge finds selects edges only and writes to one, the
\* lookup of addEdgeIfNotExists finds has edges only.
C27_LabelsApart ==
    /\ \A e, f \in 1..Len(E) :
           (E[e].outV = E[f].outV /\ E[e].inV = E[f].inV) => E[e].label = E[f].label
    /\ \A p \in Procs :
           /\ st[p].pc = "updateQuery" =>
                  \A e \in edgesBetween(st[p].edge.outV, st[p].edge.inV) :
                      E[e].label = "selects"
           /\ st[p].pc = "updateEdge" => E[st[p].eid].label = "selects"
           /\ st[p].pc = "ensureQuery" =>
                  \A e \in edgesBetween(st[p].edge.outV, st[p].edge.inV) :
                      E[e].label = "has"

\* a request is about to increment origin -> recipe while the has edge
\* recipe -> origin exists
C27_Witness ==
    \E p \in Procs :
        /\ st[p].pc = "updateEdge"
        /\ st[p].stage = 2
        /\ \E h \in edgesBetween(st[p].edge.inV, st[p].edge.outV) : E[h].label = "has"

\* C28: when graph.addVertex answers 200 without the vertex, addIngredient,
\* addCuisine and addRecipe reject in that step with no edge call issued,
\* and every edge, stored or about to be, has its two end points.
C28_NoEcho ==
    /\ [][\A p \in SeqProcs :
             (/\ st[p].pc = "createVertex"
              /\ st[p].op # "addUser"
              /\ V' # V
              /\ faults' # faults) =>
                 /\ settledAs(st'[p], "rejected")
                 /\ E' = E
                 /\ started' = started]_vars
    /\ [](/\ \A e \in 1..Len(E) :
               E[e].outV \in 1..Len(V) /\ E[e].inV \in 1..Len(V)
           /\ \A p \in SeqProcs :
               st[p].pc \in {"updateQuery", "updateEdge", "createEdge", "ensureQuery"} =>
                   /\ st[p].edge.outV \in 1..Len(V)
                   /\ st[p].edge.inV \in 1..Len(V))

\* addIngredient was rejected, the ingredient vertex is stored and no
\* recording was begun for it
C28_Witness ==
    /\ \E p \in SeqProcs : st[p].op = "addIngredient" /\ st[p].status = "rejected"
    /\ faults = 1
    /\ V # <<>>
    /\ V[Len(V)].label = "ingredient"
    /\ \A k \in DOMAIN started : k[2] # Len(V)
    /\ \A e \in 1..Len(E) : E[e].inV # Len(V)

\* C29: when the create call fails at transport level init rejects and the
\* client keeps the graph id it held; the graph id is written only in a
\* step in which getOrCreateGraph resolves.
C29_CreateFails ==
    [][/\ (/\ boot.pc = "create"
           /\ boot'.pc # "create"
           /\ boot'.created.kind = "error") =>
              /\ boot'.settled = "rejected"
              /\ graphId' = graphId
       /\ graphId' # graphId =>
              /\ boot'.ensure = "resolved"
              /\ boot.ensure = "none"
              /\ graphId' = boot.id]_vars

\* on a fresh client the create call failed at transport level: init has
\* rejected and no graph is bound
C29_Witness ==
    /\ boot.created.kind = "error"
    /\ boot.settled = "rejected"
    /\ graphId = "none"

\* the recommendation queries the requests can issue: <<label, key>>
Queries ==
    {<<"ingredient", getUniqueIngredientsName(s)>> : s \in IngredientInputs}
        \cup {<<"cuisine", getUniqueCuisineName(c)>> : c \in CuisineInputs}

\* the person vertices, named otherwise than the requester, that have a
\* selects edge with count > 1 to a recipe named recipeName
otherUsers(recipeName, userName) ==
    {u \in personIds :
        /\ V[u].name # userName
        /\ \E e \in 1..Len(E) :
               /\ E[e].label = "selects"
               /\ E[e].outV = u
               /\ V[E[e].inV].label = "recipe"
               /\ V[E[e].inV].name = recipeName
               /\ hasCount(e)
               /\ count(e) > 1}

\* C9: in every reachable graph state, the recommendedUserCount of each
\* recipe a recommendation query returns is the number of distinct other
\* users that have a selects edge with count > 1 to that recipe.
C9_RecommendedUserCount ==
    \A q \in Queries, u \in personIds, n \in 0..MaxLimit :
        \A paths \in pathLists(q[1], q[2], V[u].name) :
            LET rs == recommendedRecipes(paths, n)
            IN  \A i \in 1..Len(rs) :
                    rs[i].recommendedUserCount
                        = Cardinality(otherUsers(rs[i].id, V[u].name))

\* C10: a recipe is returned only if it has a `has` edge to the vertex the
\* canonical key names and some person named otherwise than the requester
\* has an edge with count > 1 to it.
C10_Eligibility ==
    \A q \in Queries, u \in personIds :
        \A paths \in pathLists(q[1], q[2], V[u].name), n \in 0..MaxLimit :
            LET rs == recommendedRecipes(paths, n)
            IN  \A i \in 1..Len(rs) :
                    \E r \in 1..Len(V) :
                        /\ V[r].name = rs[i].id
                        /\ \E h \in 1..Len(E) :
                               /\ E[h].label = "has"
                               /\ E[h].outV = r
                               /\ V[E[h].inV].label = q[1]
                               /\ V[E[h].inV].name = q[2]
                        /\ \E e \in 1..Len(E) :
                               /\ E[e].inV = r
                               /\ V[E[e].outV].label = "person"
                               /\ V[E[e].outV].name # V[u].name
                               /\ hasCount(e)
                               /\ count(e) > 1

\* a recommendation query returned a recipe
C10_Witness ==
    \E p \in Procs :
        /\ st[p].op \in {"findRecommendedRecipesForIngredient",
                         "findRecommendedRecipesForCuisine"}
        /\ st[p].status = "resolved"
        /\ st[p].result # <<>>

====
